---- MODULE Spec2Model ----
(***************************************************************************)
(* A model of db_qa_diff.recorddiff (src/db_qa_diff/__init__.py): the      *)
(* staging-and-diff pipeline that copies table1 of engine1 into a          *)
(* TEMPORARY table of engine2 and compares the two with SQL EXCEPT.        *)
(*                                                                         *)
(* The database library is modelled by what the calls of the source do:    *)
(*  - a catalog maps a table name to its column names and its rows (a      *)
(*    sequence: a table is a bag of rows in scan order);                   *)
(*  - sa.Table(name, metadata, *cols) raises InvalidRequestError when the  *)
(*    name is already defined in that MetaData and columns are given;      *)
(*  - Table.create(bind=engine) runs the DDL on a connection the engine    *)
(*    checks out itself, outside any transaction the caller holds;         *)
(*  - an executemany INSERT binds each parameter mapping by column name:   *)
(*    keys that are no column of the table are ignored, columns without a  *)
(*    key are NULL;                                                        *)
(*  - EXCEPT is a set difference of rows (duplicates collapse);            *)
(*  - leaving a `with engine.begin()` block by an exception rolls the      *)
(*    transaction back.                                                    *)
(*                                                                         *)
(* Column names are sequences of ASCII codes, so that str.lower() is       *)
(* computed, not assumed.  Column types are not modelled.                  *)
(***************************************************************************)
EXTENDS Integers, Sequences, FiniteSets, TLC

(***************************************************************************)
(* Bounds of the model.                                                    *)
(***************************************************************************)
\* longest `tables` argument of recorddiff
MaxPairs == 2
\* the batch sizes 1..MaxBatch that SpecBatch tries beside the code's own
MaxBatch == 2
\* rows another session may insert into a source table during the run
MaxWrites == 1

(***************************************************************************)
(* Names and values.                                                       *)
(***************************************************************************)
\* "id"
cId == <<105, 100>>
\* "amount"
cAmount == <<97, 109, 111, 117, 110, 116>>
\* "note"
cNote == <<110, 111, 116, 101>>
\* "Note"
cNoteCap == <<78, 111, 116, 101>>

NULL == "NULL"

Range(s) == {s[k] : k \in DOMAIN s}

\* str.lower() on ASCII text
Lower(s) == [k \in DOMAIN s |-> IF s[k] \in 65..90 THEN s[k] + 32 ELSE s[k]]

\* the row (a mapping column name -> value) with the values vals for cols
RowOf(cols, vals) ==
    [c \in Range(cols) |-> vals[CHOOSE k \in DOMAIN cols : cols[k] = c]]

MkTable(cols, valss) ==
    [cols |-> cols, rows |-> [k \in DOMAIN valss |-> RowOf(cols, valss[k])]]

(***************************************************************************)
(* The databases the run is given: two catalogs, each holding the tables   *)
(* "a" and "b".                                                            *)
(***************************************************************************)
OrdersSrc == MkTable(<<cId, cAmount, cNote>>,
                     << <<"1", "10", "a">>, <<"2", "20", "b">> >>)
OrdersTgt == MkTable(<<cId, cAmount, cNote>>,
                     << <<"1", "10", "a">>, <<"3", "30", "c">> >>)
Legacy == MkTable(<<cId, cAmount>>,
                  << <<"1", "10">>, <<"1", "10">>, <<"2", "20">> >>)
Mixed == MkTable(<<cId, cNoteCap>>, << <<"1", "a">> >>)
Empty == MkTable(<<cId, cAmount, cNote>>, << >>)

Catalog(ta, tb) == [t \in {"a", "b"} |-> IF t = "a" THEN ta ELSE tb]

Catalogs1 == {Catalog(OrdersSrc, Empty), Catalog(Legacy, Mixed)}
Catalogs2 == {Catalog(OrdersTgt, Mixed), Catalog(OrdersTgt, Empty)}

(***************************************************************************)
(* The arguments of recorddiff.                                            *)
(***************************************************************************)
\* an entry of *tables: a str, or a sequence of two names
StrEntry(t) == [kind |-> "str", t1 |-> t, t2 |-> t]
PairEntry(x, y) == [kind |-> "pair", t1 |-> x, t2 |-> y]

Entries == {StrEntry("a"), PairEntry("a", "b"), PairEntry("b", "a"),
            StrEntry("zz"), PairEntry("b", "zz")}

SeqsUpTo(S, m) == UNION {[1..k -> S] : k \in 0..m}

\* a value of the ignore_cols dict: one column name, or a list of them
StrVal(c) == [kind |-> "str", names |-> <<c>>]
ListVal(cs) == [kind |-> "list", names |-> cs]

IgnoreAlls == {<< >>, <<cNote>>, <<cNoteCap>>, <<cNoteCap, cNote>>}

\* a dict, as the sequence of its items in insertion order
IgnoreColss == {<< >>,
                << [key |-> "a", val |-> StrVal(cNoteCap)] >>,
                << [key |-> "a", val |-> ListVal(<<cAmount, cNote>>)],
                   [key |-> "b", val |-> StrVal(cNote)] >>}

\* n = 15000, the one batch size of _copy_table1_to_engine2
BatchSize == 15000

\* n made a parameter of the transfer: the code's size and smaller ones,
\* which split the tables of the model into several partitions
BatchSizes == {BatchSize} \cup (1..MaxBatch)

(***************************************************************************)
(* _create_drop_cols                                                       *)
(***************************************************************************)
\* `if isinstance(entry, str): entry = [entry]`
EntryNames(entry) ==
    IF entry.kind = "str" THEN <<entry.t1>> ELSE <<entry.t1, entry.t2>>

\* the body of `for table in entry` for one dict item (k, v)
RECURSIVE ExtendForItem(_, _, _, _)
ExtendForItem(extend_cols, item, names, j) ==
    IF j > Len(names) THEN extend_cols
    ELSE ExtendForItem(
             IF item.key = names[j]
             THEN IF item.val.kind = "list"
                  THEN extend_cols \o item.val.names
                  ELSE Append(extend_cols, item.val.names[1])
             ELSE extend_cols,
             item, names, j + 1)

\* `for k, v in ignore_cols.items()`
RECURSIVE ExtendCols(_, _, _, _)
ExtendCols(extend_cols, ignore_cols, names, k) ==
    IF k > Len(ignore_cols) THEN extend_cols
    ELSE ExtendCols(ExtendForItem(extend_cols, ignore_cols[k], names, 1),
                    ignore_cols, names, k + 1)

CreateDropCols(ignore_all, ignore_cols, entry) ==
    [k \in DOMAIN ignore_all |-> Lower(ignore_all[k])]
        \o ExtendCols(<< >>, ignore_cols, EntryNames(entry), 1)

(***************************************************************************)
(* _create_table1_in_engine2 and the INSERT into the staging table         *)
(***************************************************************************)
\* [col for col in b.table2.c if col.name not in b.drop_cols]
KeptCols(table2cols, drop_cols) ==
    SelectSeq(table2cols, LAMBDA c : c \notin Range(drop_cols))

\* f'{b.table1}_table1_in_engine2'
StagingName(t1name) == <<t1name, "_table1_in_engine2">>

\* the row an INSERT into a table with the columns cols stores for the
\* parameter mapping m
InsertedRow(cols, m) ==
    [c \in Range(cols) |-> IF c \in DOMAIN m THEN m[c] ELSE NULL]

InsertAll(cols, partition) ==
    [k \in DOMAIN partition |-> InsertedRow(cols, partition[k])]

(***************************************************************************)
(* _copy_table1_to_engine2                                                 *)
(***************************************************************************)
Min(x, y) == IF x <= y THEN x ELSE y

\* the next partition of result.mappings().partitions() with yield_per=size
NextPartition(cursor, size) == SubSeq(cursor, 1, Min(size, Len(cursor)))

\* counting partitions instead of rows
RowsAfterMiscount(rows_inserted, partition) == rows_inserted + 1

\* rows_inserted = rows_inserted + len(partition)
RowsAfter(rows_inserted, partition) == rows_inserted + Len(partition)

(***************************************************************************)
(* _compare_tables                                                         *)
(***************************************************************************)
\* SELECT <cols> FROM table: the rows, projected
Project(rows, cols) ==
    [k \in DOMAIN rows |-> [c \in Range(cols) |-> rows[k][c]]]

\* the left operand alone, without the EXCEPT
AppearedNoExcept(table2rows, table_2_cols, staged) ==
    Range(Project(table2rows, table_2_cols))

\* select(*table_2_cols).except_(select(table1_in_engine2))
Appeared(table2rows, table_2_cols, staged) ==
    Range(Project(table2rows, table_2_cols)) \ Range(staged)

\* the operands of EXCEPT the wrong way round
DisappearedSwapped(table2rows, table_2_cols, staged) ==
    Range(Project(table2rows, table_2_cols)) \ Range(staged)

\* select(table1_in_engine2).except_(select(*table_2_cols))
Disappeared(table2rows, table_2_cols, staged) ==
    Range(staged) \ Range(Project(table2rows, table_2_cols))

\* fetchmany(5)
SampleSize == 5

\* rv.mappings().fetchmany(5): the samples it may return. A result of at
\* most 5 rows is returned whole; of a larger one the database yields any 5
\* rows first, the queries having no ORDER BY.
FetchMany(rv) ==
    IF Cardinality(rv) <= SampleSize THEN {rv}
    ELSE {s \in SUBSET rv : Cardinality(s) = SampleSize}

\* rv.rowcount of a SELECT: the number of rows of the result with a DBAPI
\* driver that counts them, -1 with one that does not
RowCount(rv, counted) == IF counted THEN Cardinality(rv) ELSE -1

\* max(rv.rowcount, 0), the number the report prints
Printed(rowcount) == IF rowcount > 0 THEN rowcount ELSE 0

\* `if rv.rowcount > 0: for row in sample: pprint(...)`
RowsPrinted(sample, rowcount) == IF rowcount > 0 THEN sample ELSE {}

(***************************************************************************)
(* The state of one use of the package.                                    *)
(***************************************************************************)
VARIABLES
    tables,         \* recorddiff's *tables
    ignore_all,     \* recorddiff's ignore_all
    ignore_cols,    \* recorddiff's ignore_cols
    n,              \* the batch size of _copy_table1_to_engine2
    select_rowcount, \* the DBAPI drivers set cursor.rowcount for a SELECT
    db,             \* db[1], db[2]: the catalogs of the two databases
    temp,           \* temp[d]: the TEMPORARY tables of database d's session
    swapped,        \* FALSE: engine1 is database 1; TRUE: engine1 is database 2
    firstResults,   \* what the first call of recorddiff reported
    pc,             \* where recorddiff is
    i,              \* the position of `entry` in tables, from 1
    b,              \* the _Bucket of the current entry
    metadata1,      \* the table keys of metadata1
    metadata2,      \* the table keys of metadata2
    txn1,           \* conn1's transaction is open
    txn2,           \* conn2's transaction is open
    row_count,      \* _copy_table1_to_engine2's row_count
    rows_inserted,  \* _copy_table1_to_engine2's rows_inserted
    cursor,         \* the rows the streaming SELECT has yet to yield
    results,        \* what _compare_tables reported, one record per entry
    err,            \* the exception recorddiff raised, and the entry it was in
    log,            \* the statements executed so far
    writes          \* rows other sessions have inserted

vars == <<tables, ignore_all, ignore_cols, n, select_rowcount, db, temp, swapped, firstResults,
          pc, i, b, metadata1, metadata2, txn1, txn2, row_count,
          rows_inserted, cursor, results, err, log, writes>>

inputs == <<tables, ignore_all, ignore_cols, n, select_rowcount>>

NoName == << >>
NoBucket == [t1name |-> "", t2name |-> "", table1 |-> << >>,
             table2 |-> << >>, drop_cols |-> << >>,
             table1_in_engine2 |-> [name |-> NoName, cols |-> << >>]]
NoErr == [type |-> "none", pair |-> 0]

\* engine1 and engine2 of the current call
SrcDb == IF swapped THEN 2 ELSE 1
TgtDb == IF swapped THEN 1 ELSE 2

Event(op, conn, name) ==
    [pair |-> i, op |-> op, conn |-> conn, txn |-> txn2, name |-> name]

\* the state recorddiff starts in, whatever the batch size
InitRest ==
    /\ tables \in SeqsUpTo(Entries, MaxPairs)
    /\ ignore_all \in IgnoreAlls
    /\ ignore_cols \in IgnoreColss
    /\ select_rowcount \in BOOLEAN
    /\ db \in {[d \in {1, 2} |-> IF d = 1 THEN c1 ELSE c2] :
                  c1 \in Catalogs1, c2 \in Catalogs2}
    /\ temp = [d \in {1, 2} |-> << >>]
    /\ swapped = FALSE
    /\ firstResults = << >>
    /\ pc = "reflect1"
    /\ i = 1
    /\ b = NoBucket
    /\ metadata1 = {}
    /\ metadata2 = {}
    /\ txn1 = FALSE
    /\ txn2 = FALSE
    /\ row_count = 0
    /\ rows_inserted = 0
    /\ cursor = << >>
    /\ results = << >>
    /\ err = NoErr
    /\ log = << >>
    /\ writes = 0

Init ==
    /\ n = BatchSize
    /\ InitRest

\* recorddiff with the batch size of the transfer a parameter
InitBatch ==
    /\ n \in BatchSizes
    /\ InitRest

\* an exception leaves recorddiff: both `with` transactions, when open, are
\* rolled back, which undoes the rows inserted into the staging table
Raise(type, tempNow) ==
    /\ pc' = "aborted"
    /\ err' = [type |-> type, pair |-> i]
    /\ txn1' = FALSE
    /\ txn2' = FALSE
    /\ temp' = IF txn2
               THEN [tempNow EXCEPT ![TgtDb][b.table1_in_engine2.name] = << >>]
               ELSE tempNow

\* lines 132-152: the loop header, the entry's names, table1's reflection
ReflectTable1 ==
    /\ pc = "reflect1"
    /\ i <= Len(tables)
    /\ LET t1name == tables[i].t1
           t2name == tables[i].t2
       IN IF t1name \in DOMAIN db[SrcDb]
          THEN /\ b' = [NoBucket EXCEPT !.t1name = t1name, !.t2name = t2name,
                                        !.table1 = db[SrcDb][t1name].cols]
               /\ metadata1' = metadata1 \cup {<<t1name>>}
               /\ pc' = "reflect2"
               /\ UNCHANGED <<err, txn1, txn2, temp>>
          ELSE /\ Raise("NoSuchTableError", temp)
               /\ UNCHANGED <<b, metadata1>>
    /\ UNCHANGED <<inputs, db, swapped, firstResults, i, metadata2, row_count,
                   rows_inserted, cursor, results, log, writes>>

\* table2's reflection with the error swallowed: the loop goes on
ReflectTable2Swallowed ==
    /\ pc = "reflect2"
    /\ IF b.t2name \in DOMAIN db[TgtDb]
       THEN /\ b' = [b EXCEPT !.table2 = db[TgtDb][b.t2name].cols]
            /\ metadata2' = metadata2 \cup {<<b.t2name>>}
            /\ pc' = "stage"
            /\ UNCHANGED <<err, i>>
       ELSE /\ err' = [type |-> "NoSuchTableError", pair |-> i]
            /\ pc' = "reflect1"
            /\ i' = i + 1
            /\ UNCHANGED <<b, metadata2>>
    /\ UNCHANGED <<inputs, db, swapped, firstResults, metadata1, row_count,
                   rows_inserted, cursor, results, log, writes, txn1, txn2,
                   temp>>

\* lines 153-161: table2's reflection
ReflectTable2 ==
    /\ pc = "reflect2"
    /\ IF b.t2name \in DOMAIN db[TgtDb]
       THEN /\ b' = [b EXCEPT !.table2 = db[TgtDb][b.t2name].cols]
            /\ metadata2' = metadata2 \cup {<<b.t2name>>}
            /\ pc' = "stage"
            /\ UNCHANGED <<err, txn1, txn2, temp>>
       ELSE /\ Raise("NoSuchTableError", temp)
            /\ UNCHANGED <<b, metadata2>>
    /\ UNCHANGED <<inputs, db, swapped, firstResults, i, metadata1, row_count,
                   rows_inserted, cursor, results, log, writes>>

\* lines 163-167: the exclusion list, the _Bucket, the staging table
CreateTable1InEngine2 ==
    /\ pc = "stage"
    /\ LET drop_cols == CreateDropCols(ignore_all, ignore_cols, tables[i])
           l == KeptCols(b.table2, drop_cols)
           name == StagingName(b.t1name)
       IN /\ b' = [b EXCEPT !.drop_cols = drop_cols,
                            !.table1_in_engine2 =
                                IF name \in metadata2 THEN @
                                ELSE [name |-> name, cols |-> l]]
          /\ IF name \in metadata2
             THEN \* sa.Table: "Table ... is already defined for this MetaData"
                  /\ Raise("InvalidRequestError", temp)
                  /\ log' = Append(log, Event("table", "none", name))
                  /\ UNCHANGED metadata2
             ELSE \* table1_in_engine2.create(bind=b.engine2)
                  /\ metadata2' = metadata2 \cup {name}
                  /\ temp' = [temp EXCEPT ![TgtDb] = (name :> << >>) @@ @]
                  /\ log' = log \o <<Event("table", "none", name),
                                     Event("create", "engine2", name)>>
                  /\ pc' = "begin"
                  /\ UNCHANGED <<err, txn1, txn2>>
    /\ UNCHANGED <<inputs, db, swapped, firstResults, i, metadata1, row_count,
                   rows_inserted, cursor, results, writes>>

\* line 170: with engine1.begin() as conn1, engine2.begin() as conn2
BeginTransactions ==
    /\ pc = "begin"
    /\ txn1' = TRUE
    /\ txn2' = TRUE
    /\ pc' = "count"
    /\ UNCHANGED <<inputs, db, temp, swapped, firstResults, i, b, metadata1,
                   metadata2, row_count, rows_inserted, cursor, results, err,
                   log, writes>>

\* lines 39-45: SELECT count(*) FROM table1
CountRows ==
    /\ pc = "count"
    /\ rows_inserted' = 0
    /\ row_count' = Len(db[SrcDb][b.t1name].rows)
    /\ log' = Append(log, Event("count", "conn1", b.table1_in_engine2.name))
    /\ pc' = "select"
    /\ UNCHANGED <<inputs, db, temp, swapped, firstResults, i, b, metadata1,
                   metadata2, txn1, txn2, cursor, results, err, writes>>

\* lines 47-49: the streaming SELECT of table1
OpenStream ==
    /\ pc = "select"
    /\ cursor' = db[SrcDb][b.t1name].rows
    /\ log' = Append(log, Event("select", "conn1", b.table1_in_engine2.name))
    /\ pc' = "transfer"
    /\ UNCHANGED <<inputs, db, temp, swapped, firstResults, i, b, metadata1,
                   metadata2, txn1, txn2, row_count, rows_inserted, results,
                   err, writes>>

\* lines 50-54: one turn of `for partition in ...partitions()`
TransferPartition ==
    /\ pc = "transfer"
    /\ cursor # << >>
    /\ LET partition == NextPartition(cursor, n)
           staging == b.table1_in_engine2
           inserted == [temp EXCEPT ![TgtDb][staging.name] =
                            @ \o InsertAll(staging.cols, partition)]
       IN /\ cursor' = SubSeq(cursor, Len(partition) + 1, Len(cursor))
          /\ rows_inserted' = RowsAfter(rows_inserted, partition)
          /\ log' = Append(log, Event("insert", "conn2", staging.name))
          /\ IF row_count = 0
             THEN \* rows_inserted / row_count
                  Raise("ZeroDivisionError", inserted)
             ELSE /\ temp' = inserted
                  /\ UNCHANGED <<pc, err, txn1, txn2>>
    /\ UNCHANGED <<inputs, db, swapped, firstResults, i, b, metadata1,
                   metadata2, row_count, results, writes>>

\* lines 76-102 and 172-174: the partitions are exhausted; the two EXCEPT
\* queries; both transactions commit; the next entry
CompareTables ==
    /\ pc = "transfer"
    /\ cursor = << >>
    /\ LET table_2_cols == KeptCols(b.table2, b.drop_cols)
           staging == b.table1_in_engine2
           staged == temp[TgtDb][staging.name]
           table2rows == db[TgtDb][b.t2name].rows
           rv_appear == Appeared(table2rows, table_2_cols, staged)
           rv_disappear == Disappeared(table2rows, table_2_cols, staged)
           appear_rowcount == RowCount(rv_appear, select_rowcount)
           disappear_rowcount == RowCount(rv_disappear, select_rowcount)
       IN /\ \E appear \in FetchMany(rv_appear),
                disappear \in FetchMany(rv_disappear) :
              results' = Append(results,
                 [t1name |-> b.t1name, t2name |-> b.t2name,
                  drop_cols |-> b.drop_cols, staging |-> staging.name,
                  table_2_cols |-> table_2_cols,
                  appear |-> rv_appear,
                  disappear |-> rv_disappear,
                  appear_printed |-> Printed(appear_rowcount),
                  disappear_printed |-> Printed(disappear_rowcount),
                  appear_rows_printed |->
                      RowsPrinted(appear, appear_rowcount),
                  disappear_rows_printed |->
                      RowsPrinted(disappear, disappear_rowcount),
                  table1_in_engine2_nrows |-> Len(staged),
                  table2_nrows |-> Len(table2rows),
                  rows_inserted |-> rows_inserted,
                  row_count |-> row_count])
          /\ log' = Append(log, Event("compare", "conn2", staging.name))
    /\ txn1' = FALSE
    /\ txn2' = FALSE
    /\ i' = i + 1
    /\ pc' = "reflect1"
    /\ UNCHANGED <<inputs, db, temp, swapped, firstResults, b, metadata1,
                   metadata2, row_count, rows_inserted, cursor, err, writes>>

\* line 176: the loop is over
Finish ==
    /\ pc = "reflect1"
    /\ i > Len(tables)
    /\ pc' = "done"
    /\ UNCHANGED <<inputs, db, temp, swapped, firstResults, i, b, metadata1,
                   metadata2, txn1, txn2, row_count, rows_inserted, cursor,
                   results, err, log, writes>>

\* lines 49-52: the database fails the streaming read or a batch insert
TransferError ==
    /\ pc \in {"select", "transfer"}
    /\ Raise("TransferError", temp)
    /\ UNCHANGED <<inputs, db, swapped, firstResults, i, b, metadata1,
                   metadata2, row_count, rows_inserted, cursor, results, log,
                   writes>>

\* between lines 45 and 49: another session inserts a row into table1
ConcurrentWrite ==
    /\ pc = "select"
    /\ writes < MaxWrites
    /\ writes' = writes + 1
    /\ db' = [db EXCEPT ![SrcDb][b.t1name].rows =
                  Append(@, [c \in Range(b.table1) |-> "9"])]
    /\ UNCHANGED <<inputs, temp, swapped, firstResults, pc, i, b, metadata1,
                   metadata2, txn1, txn2, row_count, rows_inserted, cursor,
                   results, err, log>>

SwapEntry(e) == [kind |-> e.kind, t1 |-> e.t2, t2 |-> e.t1]

\* the caller calls recorddiff(engine2, engine1, ...) with every entry
\* reversed and the same ignore_all and ignore_cols
RerunSwapped ==
    /\ pc = "done"
    /\ ~swapped
    /\ swapped' = TRUE
    /\ firstResults' = results
    /\ tables' = [k \in DOMAIN tables |-> SwapEntry(tables[k])]
    /\ pc' = "reflect1"
    /\ i' = 1
    /\ b' = NoBucket
    /\ metadata1' = {}
    /\ metadata2' = {}
    /\ row_count' = 0
    /\ rows_inserted' = 0
    /\ results' = << >>
    /\ log' = << >>
    /\ UNCHANGED <<ignore_all, ignore_cols, n, select_rowcount, db, temp, txn1,
                   txn2, cursor, err, writes>>

Next ==
    \/ ReflectTable1
    \/ ReflectTable2
    \/ CreateTable1InEngine2
    \/ BeginTransactions
    \/ CountRows
    \/ OpenStream
    \/ TransferPartition
    \/ CompareTables
    \/ Finish
    \/ TransferError
    \/ ConcurrentWrite
    \/ RerunSwapped

Spec == Init /\ [][Next]_vars

\* the same program with n drawn from BatchSizes
SpecBatch == InitBatch /\ [][Next]_vars

(***************************************************************************)
(* The claims.                                                             *)
(***************************************************************************)
\* the names of the columns of table tbl that drop_cols does not list
KeptNames(tbl, drop_cols) == {c \in Range(tbl.cols) : c \notin Range(drop_cols)}

\* C1: for every entry whose pipeline ran to completion, 'appeared' is the
\* set of table2's rows, projected onto table2's columns that the exclusion
\* list does not name, that are not rows of the staging table, and
\* 'disappeared' is the set of the staging table's rows that are not in that
\* projection; on the spec's orders tables this is {(3,30,'c')} and
\* {(2,20,'b')} without exclusions, {(3,30)} and {(2,20)} when note is
\* excluded.
C1_DiffIsSetDifference ==
    \A k \in DOMAIN results :
        LET r == results[k]
            tgt == db[TgtDb][r.t2name]
            kept == KeptNames(tgt, r.drop_cols)
            T == {[c \in kept |-> row[c]] : row \in Range(tgt.rows)}
            S == Range(temp[TgtDb][r.staging])
            orders == /\ db[SrcDb][r.t1name] = OrdersSrc
                      /\ tgt = OrdersTgt
        IN /\ r.appear = {t \in T : t \notin S}
           /\ r.disappear = {t \in S : t \notin T}
           /\ (orders /\ Range(r.drop_cols) = {}) =>
                  /\ r.appear = {RowOf(<<cId, cAmount, cNote>>,
                                       <<"3", "30", "c">>)}
                  /\ r.disappear = {RowOf(<<cId, cAmount, cNote>>,
                                          <<"2", "20", "b">>)}
           /\ (orders /\ Range(r.drop_cols) = {cNote}) =>
                  /\ r.appear = {RowOf(<<cId, cAmount>>, <<"3", "30">>)}
                  /\ r.disappear = {RowOf(<<cId, cAmount>>, <<"2", "20">>)}

\* C1's case: the orders tables were compared with the note column excluded
C1_Witness ==
    \E k \in DOMAIN results :
        /\ db[SrcDb][results[k].t1name] = OrdersSrc
        /\ db[TgtDb][results[k].t2name] = OrdersTgt
        /\ Range(results[k].drop_cols) = {cNote}

\* C2: no column named in ignore_all, in whatever letter case, is a column
\* of the staging table or of the projection of the EXCEPT queries.
C2_IgnoredNeverCompared ==
    LET ignored == {Lower(x) : x \in Range(ignore_all)}
    IN /\ \A c \in Range(b.table1_in_engine2.cols) : Lower(c) \notin ignored
       /\ \A k \in DOMAIN results :
              \A c \in Range(results[k].table_2_cols) : Lower(c) \notin ignored

\* C3: a failure of the streaming read or of a batch insert aborts only the
\* entry it happens in: that entry is never compared, the earlier results
\* stand, and the run goes on while entries remain.
C3_TransferErrorAbortsOnlyThePair ==
    err.type = "TransferError" =>
        /\ \A e \in Range(log) : ~(e.op = "compare" /\ e.pair = err.pair)
        /\ Len(results) >= err.pair - 1
        /\ (err.pair < Len(tables) => pc # "aborted")

\* C4: when the transfer of an entry is over, the running total and the
\* number of rows of the staging table both equal the number of rows of
\* table1, for every batch size (checked under SpecBatch).
C4_TransferredEqualsSourceRows ==
    (pc = "transfer" /\ cursor = << >>) =>
        /\ rows_inserted = Len(db[SrcDb][b.t1name].rows)
        /\ Len(temp[TgtDb][b.table1_in_engine2.name]) = rows_inserted

\* C4's case: three rows went over in batches of two
C4_Witness ==
    /\ pc = "transfer"
    /\ cursor = << >>
    /\ n = 2
    /\ Len(db[SrcDb][b.t1name].rows) = 3

\* the two calls of recorddiff, one with the engines and every entry swapped,
\* both ran to completion over tables no other session wrote to
BothRunsDone ==
    /\ swapped
    /\ pc = "done"
    /\ writes = 0
    /\ Len(results) = Len(firstResults)

\* C5 as stated: 'appeared' of one call equals 'disappeared' of the call
\* with source and target swapped, whatever the columns of the two tables.
C5_SymmetryForAnySchemas ==
    BothRunsDone =>
        \A k \in DOMAIN results :
            /\ results[k].disappear = firstResults[k].appear
            /\ results[k].appear = firstResults[k].disappear

\* the two tables of entry k keep the same column names
SameKeptNames(k) ==
    KeptNames(db[SrcDb][results[k].t1name], results[k].drop_cols)
        = KeptNames(db[TgtDb][results[k].t2name], results[k].drop_cols)

\* C5, amended: 'appeared' of one call equals 'disappeared' of the call with
\* source and target swapped when the two tables have the same column names
\* outside the exclusion list.
C5_SymmetryForSameColumns ==
    BothRunsDone =>
        \A k \in DOMAIN results :
            SameKeptNames(k) =>
                /\ results[k].disappear = firstResults[k].appear
                /\ results[k].appear = firstResults[k].disappear

\* C5's case: both calls compared two tables whose schemas differ only by an
\* excluded column, and found a difference
C5_Witness ==
    /\ BothRunsDone
    /\ \E k \in DOMAIN results :
           /\ SameKeptNames(k)
           /\ db[SrcDb][results[k].t1name].cols
                  # db[TgtDb][results[k].t2name].cols
           /\ results[k].disappear # {}

\* C6: the transfer never divides by a row count of 0: when the count query
\* returned 0, no insert is executed and no ZeroDivisionError is raised,
\* whatever the streaming read yields.
C6_NoDivisionByZero ==
    /\ err.type # "ZeroDivisionError"
    /\ \A e \in Range(log) :
           (e.op = "insert" /\ e.pair = i) => row_count # 0

\* C7: when the reflection of table1 or of table2 does not resolve the name,
\* the run is aborted: no statement is executed for that entry (no staging
\* table, no transfer, no comparison) nor for any later entry, and the
\* entries before it have their results.
C7_NoSuchTableAbortsTheRun ==
    err.type = "NoSuchTableError" =>
        /\ pc = "aborted"
        /\ i = err.pair
        /\ \A e \in Range(log) : e.pair < err.pair
        /\ Len(results) = err.pair - 1
        /\ \A k \in 1..(err.pair - 1) :
               \E e \in Range(log) : e.op = "compare" /\ e.pair = k

\* C7's case: the second entry names a table that does not exist, after the
\* first entry was compared
C7_Witness ==
    /\ err.type = "NoSuchTableError"
    /\ err.pair = 2
    /\ Len(results) = 1

\* C8: the staging table is created, loaded and compared inside conn2's
\* transaction, on conn2.
C8_StagingInsideTransaction ==
    \A e \in Range(log) :
        e.op \in {"create", "insert", "compare"} =>
            e.txn /\ e.conn = "conn2"

\* C9: no two entries of a run use the same staging-table name.
C9_StagingNamesUnique ==
    \A x, y \in DOMAIN log :
        (x # y /\ log[x].op = "table" /\ log[y].op = "table") =>
            log[x].name # log[y].name

\* C10: the exclusion list of the _Bucket holds lower-cased names only, and
\* no name twice.
C10_DropColsNormalized ==
    /\ \A c \in Range(b.drop_cols) : c = Lower(c)
    /\ Cardinality(Range(b.drop_cols)) = Len(b.drop_cols)

====
